---- MODULE Spec2Model ----
(***************************************************************************)
(* A model of the Go backend-fundamentals practice program: the in-memory  *)
(* user repository (a mutex, a map and a counter), the service layer over  *)
(* it, the asynchronous logger goroutine fed by an unbuffered channel, and  *)
(* the driver main() that wires them.                                      *)
(*                                                                         *)
(* Every repository method is modelled statement by statement, so that the *)
(* mutex is what makes a method atomic, not the granularity of the model.  *)
(* Time is a clock of whole seconds; the zero time.Time is 0 and the clock *)
(* starts at StartTime.                                                    *)
(***************************************************************************)
EXTENDS Integers, Sequences, FiniteSets, TLC

(* ----------------------------- bounds --------------------------------- *)

\* At most MaxCreates records are created.
MaxCreates == 3

\* The clock does not advance past MaxTime.
MaxTime == 3

\* The longest slice of entries main is run on.
MaxBatch == 2

(* ------------------------ program constants --------------------------- *)

\* The clock reading when the program starts (the zero time.Time is 0).
StartTime == 1

\* context.WithTimeout(context.Background(), 2*time.Second)
Timeout == 2

(* ------------------------------ values -------------------------------- *)

\* User{}: the zero value of the struct.
ZeroUser == [ID |-> 0, Name |-> "", Email |-> "", CreatedAt |-> 0]

\* The error values of the program; "nil" is the nil error.
ErrUserNotFound == "user not found"
ErrValidation == "name or email cannot be empty"
DeadlineExceeded == "context deadline exceeded"
Canceled == "context canceled"

\* The goroutines: two client goroutines sharing one service, the driver and
\* the logger it starts.
Caller == "c1"
Clients == {"c1", "c2"}
Driver == "main"
Logger == "asyncLogger"
Procs == Clients \cup {Driver, Logger}

\* The contexts a caller can pass to GetUser: context.Background() and the
\* context with the timeout.
Ctxs == {"background", "timeout"}

\* The (name, email) arguments callers pass to RegisterUser.
RegisterInputs ==
    { <<"Gaurav", "gaurav@example.com">>, <<"Amit", "amit@example.com">>,
      <<"", "x@example.com">>, <<"x", "">>, <<"", "">> }

\* The (name, email) arguments of the goroutines that call concurrently.
ConcurrentInputs == { <<"Gaurav", "gaurav@example.com">> }

\* The ids the goroutines that call concurrently look up.
ConcurrentIDs == {1, 2}

\* The User values callers pass to Repository.Create directly.
CreateInputs ==
    { [ID |-> 2, Name |-> "", Email |-> "", CreatedAt |-> 2] }

\* The slice literal `users` of main.
MainUsers ==
    << [name |-> "Gaurav", email |-> "gaurav@example.com"],
       [name |-> "Amit", email |-> "amit@example.com"] >>

\* The slices main is run on: its literal, and every sequence of at most
\* MaxBatch entries.
BatchEntries == {[name |-> in[1], email |-> in[2]] : in \in RegisterInputs}
Batches == {MainUsers} \cup UNION {[1..n -> BatchEntries] : n \in 0..MaxBatch}

VARIABLES
    users,      \* InMemoryUserRepo.users: map[int]User
    nextID,     \* InMemoryUserRepo.nextID
    mu,         \* InMemoryUserRepo.mu: TRUE when locked
    now,        \* the wall clock read by time.Now()
    ctxErr,     \* ctx.Err() of each context
    pc,         \* where each goroutine is
    frame,      \* the arguments and locals of each goroutine's current call
    ret,        \* what the goroutine's last call returned
    issued,     \* history: the Users returned by Create, in order of return
    batch,      \* main: the slice `users` it registers
    i,          \* main: the index of the range loop over `users`
    chanSend,   \* logChannel: the message of the sender parked on the channel
    chanClosed, \* logChannel: closed
    wg,         \* the WaitGroup's counter
    logMsg,     \* asyncLogger: the loop variable msg
    logged,     \* the lines asyncLogger has printed
    out,        \* the lines main has printed
    sent        \* history: the messages main has sent on logChannel

repoVars == <<users, nextID, mu>>
callVars == <<pc, frame, ret, issued>>
mainVars == <<batch, i, chanSend, chanClosed, wg, logMsg, logged, out, sent>>

\* The basics program (Basic-Go/Basics.go), a program of its own.
VARIABLES
    x,          \* var x uint
    Y,          \* var Y int16
    bpc,        \* where the main of the basics program is
    stderr,     \* what the builtin println has written
    stdout      \* what fmt.Println has written

basicsVars == <<x, Y, bpc, stderr, stdout>>
vars == <<users, nextID, mu, now, ctxErr, pc, frame, ret, issued,
          batch, i, chanSend, chanClosed, wg, logMsg, logged, out, sent,
          x, Y, bpc, stderr, stdout>>

(* ------------------------------ frames -------------------------------- *)

NoFrame ==
    [op |-> "none", name |-> "", email |-> "", ctx |-> "background", id |-> 0,
     user |-> ZeroUser, result |-> <<>>, err |-> "nil", cont |-> "idle"]

NoRet == [kind |-> "none", user |-> ZeroUser, list |-> <<>>, err |-> "nil"]

UserRet(u, e) == [kind |-> "user", user |-> u, list |-> <<>>, err |-> e]

ListRet(l) == [kind |-> "list", user |-> ZeroUser, list |-> l, err |-> "nil"]

(* --------------------------- pure helpers ----------------------------- *)

\* m[k] = v on a Go map.
MapPut(m, k, v) == [j \in (DOMAIN m) \cup {k} |-> IF j = k THEN v ELSE m[j]]

\* Mutant of Invalid: the validation written with && instead of ||.
InvalidBoth(name, email) == name = "" /\ email = ""

\* name == "" || email == ""
Invalid(name, email) == name = "" \/ email = ""

\* User{Name: name, Email: email}
NewUser(name, email) == [ZeroUser EXCEPT !.Name = name, !.Email = email]

\* Mutant of Stamp: the assignment of the next ID is missing, so the record
\* keeps the ID its caller supplied.
StampKeepsID(user, id, t) == [user EXCEPT !.CreatedAt = t]

\* user.ID = r.nextID; user.CreatedAt = time.Now()
Stamp(user, id, t) == [user EXCEPT !.ID = id, !.CreatedAt = t]

\* Mutant of Lookup: the `ok` of the map read is ignored, so a miss returns the
\* zero User with a nil error.
LookupIgnoresMiss(m, id) ==
    IF id \in DOMAIN m THEN UserRet(m[id], "nil") ELSE UserRet(ZeroUser, "nil")

\* user, ok := r.users[id]; if !ok { return User{}, ErrUserNotFound }; return user, nil
Lookup(m, id) ==
    IF id \in DOMAIN m THEN UserRet(m[id], "nil") ELSE UserRet(ZeroUser, ErrUserNotFound)

\* Mutant of Snapshots: the slice made with make([]User, len(r.users)), so the
\* records are appended after len(r.users) zero Users.
SnapshotsPadded(m) ==
    LET n == Cardinality(DOMAIN m)
        orders == {f \in [1..n -> DOMAIN m] : \A a, b \in 1..n : a # b => f[a] # f[b]}
    IN {[k \in 1..(2 * n) |-> IF k <= n THEN ZeroUser ELSE m[f[k - n]]] : f \in orders}

\* The slices `for _, u := range r.users { result = append(result, u) }` can
\* build: every order of the stored records.
Snapshots(m) ==
    LET n == Cardinality(DOMAIN m)
        orders == {f \in [1..n -> DOMAIN m] : \A a, b \in 1..n : a # b => f[a] # f[b]}
    IN {[k \in 1..n |-> m[f[k]]] : f \in orders}

\* Mutant of CtxDone: the select has no case for ctx.Done().
CtxNeverDone(c) == FALSE

\* case <-ctx.Done(): is ready
CtxDone(c) == ctxErr[c] # "nil"

\* The deadline of the context with the timeout.
Deadline == StartTime + Timeout

\* Mutant of CanLock: Lock never blocks.
LockNeverBlocks == TRUE

\* r.mu.Lock() can return
CanLock == ~mu

(* ----------------------------- Init ----------------------------------- *)

\* The basics program before the first statement of its main.
BasicsStart ==
    /\ bpc = "b_name"
    /\ stderr = <<>>
    /\ stdout = <<>>

\* Mutant of Init: the counter left at the zero value of int.
InitCounterZero ==
    /\ users = <<>>
    /\ nextID = 0
    /\ mu = FALSE
    /\ now = StartTime
    /\ ctxErr = [c \in Ctxs |-> "nil"]
    /\ pc = [p \in Procs |-> IF p \in Clients THEN "idle"
                             ELSE IF p = Driver THEN "m_go" ELSE "unstarted"]
    /\ frame = [p \in Procs |-> NoFrame]
    /\ ret = [p \in Procs |-> NoRet]
    /\ issued = <<>>
    /\ batch = MainUsers
    /\ i = 1
    /\ chanSend = <<>>
    /\ chanClosed = FALSE
    /\ wg = 0
    /\ logMsg = <<>>
    /\ logged = <<>>
    /\ out = <<>>
    /\ sent = <<>>
    /\ BasicsStart
    /\ x = 225 /\ Y = 32767

Init ==
    /\ users = <<>>
    /\ nextID = 1
    /\ mu = FALSE
    /\ now = StartTime
    /\ ctxErr = [c \in Ctxs |-> "nil"]
    /\ pc = [p \in Procs |-> IF p \in Clients THEN "idle"
                             ELSE IF p = Driver THEN "m_go" ELSE "unstarted"]
    /\ frame = [p \in Procs |-> NoFrame]
    /\ ret = [p \in Procs |-> NoRet]
    /\ issued = <<>>
    /\ batch = MainUsers
    /\ i = 1
    /\ chanSend = <<>>
    /\ chanClosed = FALSE
    /\ wg = 0
    /\ logMsg = <<>>
    /\ logged = <<>>
    /\ out = <<>>
    /\ sent = <<>>
    /\ BasicsStart
    /\ x = 225 /\ Y = 32767

\* main run on its slice literal or on any other slice of Batches.
InitMain ==
    /\ users = <<>>
    /\ nextID = 1
    /\ mu = FALSE
    /\ now = StartTime
    /\ ctxErr = [c \in Ctxs |-> "nil"]
    /\ pc = [p \in Procs |-> IF p \in Clients THEN "idle"
                             ELSE IF p = Driver THEN "m_go" ELSE "unstarted"]
    /\ frame = [p \in Procs |-> NoFrame]
    /\ ret = [p \in Procs |-> NoRet]
    /\ issued = <<>>
    /\ batch \in Batches
    /\ i = 1
    /\ chanSend = <<>>
    /\ chanClosed = FALSE
    /\ wg = 0
    /\ logMsg = <<>>
    /\ logged = <<>>
    /\ out = <<>>
    /\ sent = <<>>
    /\ BasicsStart
    /\ x = 225 /\ Y = 32767

(* ------------------------- calls and returns -------------------------- *)

Goto(p, label) == pc' = [pc EXCEPT ![p] = label]

\* Return r to the caller of p's current call: the locals of the call are
\* gone, its arguments stay on record until the caller's next call.
Return(p, r) ==
    /\ ret' = [ret EXCEPT ![p] = r]
    /\ pc' = [pc EXCEPT ![p] = frame[p].cont]
    /\ frame' = [frame EXCEPT ![p].user = ZeroUser, ![p].result = <<>>,
                              ![p].err = "nil"]

(* ------------------- InMemoryUserRepo.Create -------------------------- *)

\* r.mu.Lock()
CreateLock(p) ==
    /\ pc[p] = "c_lock"
    /\ CanLock
    /\ mu' = TRUE
    /\ Goto(p, "c_stamp")
    /\ UNCHANGED <<basicsVars, users, nextID, now, ctxErr, frame, ret, issued, mainVars>>

\* Mutant of CreateStamp: the next ID is assigned only to a User that carries
\* none (if user.ID == 0 { user.ID = r.nextID }).
CreateStampKeepsSupplied(p) ==
    /\ pc[p] = "c_stamp"
    /\ frame' = [frame EXCEPT ![p].user =
                    [frame[p].user EXCEPT
                       !.ID = IF frame[p].user.ID = 0 THEN nextID ELSE frame[p].user.ID,
                       !.CreatedAt = now]]
    /\ Goto(p, "c_store")
    /\ UNCHANGED <<basicsVars, users, nextID, mu, now, ctxErr, ret, issued, mainVars>>

\* user.ID = r.nextID; user.CreatedAt = time.Now()
CreateStamp(p) ==
    /\ pc[p] = "c_stamp"
    /\ frame' = [frame EXCEPT ![p].user = Stamp(frame[p].user, nextID, now)]
    /\ Goto(p, "c_store")
    /\ UNCHANGED <<basicsVars, users, nextID, mu, now, ctxErr, ret, issued, mainVars>>

\* r.users[user.ID] = user
CreateStore(p) ==
    /\ pc[p] = "c_store"
    /\ users' = MapPut(users, frame[p].user.ID, frame[p].user)
    /\ Goto(p, "c_inc")
    /\ UNCHANGED <<basicsVars, nextID, mu, now, ctxErr, frame, ret, issued, mainVars>>

\* Mutant of CreateInc: the increment of the counter is missing.
CreateIncSkipped(p) ==
    /\ pc[p] = "c_inc"
    /\ Goto(p, "c_ret")
    /\ UNCHANGED <<basicsVars, users, nextID, mu, now, ctxErr, frame, ret, issued, mainVars>>

\* r.nextID++
CreateInc(p) ==
    /\ pc[p] = "c_inc"
    /\ nextID' = nextID + 1
    /\ Goto(p, "c_ret")
    /\ UNCHANGED <<basicsVars, users, mu, now, ctxErr, frame, ret, issued, mainVars>>

\* return user, nil (and the deferred r.mu.Unlock())
CreateReturn(p) ==
    /\ pc[p] = "c_ret"
    /\ mu' = FALSE
    /\ issued' = Append(issued, frame[p].user)
    /\ Return(p, UserRet(frame[p].user, "nil"))
    /\ UNCHANGED <<basicsVars, users, nextID, now, ctxErr, mainVars>>

(* ------------------- InMemoryUserRepo.GetByID ------------------------- *)

\* r.mu.Lock()
GetLock(p) ==
    /\ pc[p] = "g_lock"
    /\ CanLock
    /\ mu' = TRUE
    /\ Goto(p, "g_read")
    /\ UNCHANGED <<basicsVars, users, nextID, now, ctxErr, frame, ret, issued, mainVars>>

\* user, ok := r.users[id] and the choice of the return values
GetRead(p) ==
    /\ pc[p] = "g_read"
    /\ frame' = [frame EXCEPT ![p].user = Lookup(users, frame[p].id).user,
                              ![p].err = Lookup(users, frame[p].id).err]
    /\ Goto(p, "g_ret")
    /\ UNCHANGED <<basicsVars, users, nextID, mu, now, ctxErr, ret, issued, mainVars>>

\* Mutant of GetReturn: GetUser looks at its context again after GetByID and
\* returns the context's error when it is done by then.
GetReturnRechecksCtx(p) ==
    /\ pc[p] = "g_ret"
    /\ mu' = FALSE
    /\ IF frame[p].op = "GetUser" /\ ctxErr[frame[p].ctx] # "nil"
       THEN Return(p, UserRet(ZeroUser, ctxErr[frame[p].ctx]))
       ELSE Return(p, UserRet(frame[p].user, frame[p].err))
    /\ UNCHANGED <<basicsVars, users, nextID, now, ctxErr, issued, mainVars>>

\* Mutant of GetReturn: GetUser wraps the error of GetByID in an error of its
\* own.
GetReturnWrapsError(p) ==
    /\ pc[p] = "g_ret"
    /\ mu' = FALSE
    /\ IF frame[p].op = "GetUser" /\ frame[p].err # "nil"
       THEN Return(p, UserRet(frame[p].user, "get user: user not found"))
       ELSE Return(p, UserRet(frame[p].user, frame[p].err))
    /\ UNCHANGED <<basicsVars, users, nextID, now, ctxErr, issued, mainVars>>

\* return (and the deferred r.mu.Unlock())
GetReturn(p) ==
    /\ pc[p] = "g_ret"
    /\ mu' = FALSE
    /\ Return(p, UserRet(frame[p].user, frame[p].err))
    /\ UNCHANGED <<basicsVars, users, nextID, now, ctxErr, issued, mainVars>>

(* --------------------- InMemoryUserRepo.List -------------------------- *)

\* r.mu.Lock()
ListLock(p) ==
    /\ pc[p] = "l_lock"
    /\ CanLock
    /\ mu' = TRUE
    /\ Goto(p, "l_read")
    /\ UNCHANGED <<basicsVars, users, nextID, now, ctxErr, frame, ret, issued, mainVars>>

\* result := make(...); for _, u := range r.users { result = append(result, u) }
ListRead(p) ==
    /\ pc[p] = "l_read"
    /\ \E s \in Snapshots(users) : frame' = [frame EXCEPT ![p].result = s]
    /\ Goto(p, "l_ret")
    /\ UNCHANGED <<basicsVars, users, nextID, mu, now, ctxErr, ret, issued, mainVars>>

\* Mutant of ListReturn: List returns without the deferred r.mu.Unlock().
ListReturnKeepsLock(p) ==
    /\ pc[p] = "l_ret"
    /\ Return(p, ListRet(frame[p].result))
    /\ UNCHANGED <<basicsVars, users, nextID, mu, now, ctxErr, issued, mainVars>>

\* return result (and the deferred r.mu.Unlock())
ListReturn(p) ==
    /\ pc[p] = "l_ret"
    /\ mu' = FALSE
    /\ Return(p, ListRet(frame[p].result))
    /\ UNCHANGED <<basicsVars, users, nextID, now, ctxErr, issued, mainVars>>

(* ---------------------------- UserService ----------------------------- *)

\* RegisterUser: the validation, then s.repo.Create(user)
RegisterCheck(p) ==
    /\ pc[p] = "r_check"
    /\ IF Invalid(frame[p].name, frame[p].email)
       THEN /\ Return(p, UserRet(ZeroUser, ErrValidation))
       ELSE /\ frame' = [frame EXCEPT ![p].user = NewUser(frame[p].name, frame[p].email)]
            /\ Goto(p, "c_lock")
            /\ ret' = ret
    /\ UNCHANGED <<basicsVars, users, nextID, mu, now, ctxErr, issued, mainVars>>

\* GetUser: the select on ctx.Done(), then s.repo.GetByID(id)
GetUserCheck(p) ==
    /\ pc[p] = "u_check"
    /\ IF CtxDone(frame[p].ctx)
       THEN /\ Return(p, UserRet(ZeroUser, ctxErr[frame[p].ctx]))
       ELSE /\ frame' = frame
            /\ Goto(p, "g_lock")
            /\ ret' = ret
    /\ UNCHANGED <<basicsVars, users, nextID, mu, now, ctxErr, issued, mainVars>>

(* ------------------------ the client goroutines ----------------------- *)

Enter(p, f, label) ==
    /\ frame' = [frame EXCEPT ![p] = f]
    /\ ret' = [ret EXCEPT ![p] = NoRet]
    /\ Goto(p, label)
    /\ UNCHANGED <<basicsVars, users, nextID, mu, now, ctxErr, issued, mainVars>>

\* The calls that end in Create and have not returned yet.
Creating == {q \in Procs : /\ frame[q].op \in {"RegisterUser", "Create"}
                           /\ pc[q] \notin {"idle", "returned"}}

\* Fewer than MaxCreates records have been created or are being created.
MayCreate == nextID + Cardinality(Creating) <= MaxCreates

\* service.RegisterUser(name, email) with (name, email) one of `inputs`
CallRegisterUser(p, inputs) ==
    /\ pc[p] = "idle"
    /\ MayCreate
    /\ \E in \in inputs :
         Enter(p, [NoFrame EXCEPT !.op = "RegisterUser", !.name = in[1],
                                  !.email = in[2], !.cont = "returned"], "r_check")

\* service.GetUser(ctx, id)
CallGetUser(p) ==
    /\ pc[p] = "idle"
    /\ \E c \in Ctxs, id \in 0..MaxCreates :
         Enter(p, [NoFrame EXCEPT !.op = "GetUser", !.ctx = c, !.id = id,
                                  !.cont = "returned"], "u_check")

\* repo.Create(user)
CallCreate(p) ==
    /\ pc[p] = "idle"
    /\ MayCreate
    /\ \E u \in CreateInputs :
         Enter(p, [NoFrame EXCEPT !.op = "Create", !.user = u,
                                  !.cont = "returned"], "c_lock")

\* repo.GetByID(id) with id one of `ids`
CallGetByID(p, ids) ==
    /\ pc[p] = "idle"
    /\ \E id \in ids :
         Enter(p, [NoFrame EXCEPT !.op = "GetByID", !.id = id,
                                  !.cont = "returned"], "g_lock")

\* repo.List()
CallList(p) ==
    /\ pc[p] = "idle"
    /\ Enter(p, [NoFrame EXCEPT !.op = "List", !.cont = "returned"], "l_lock")

\* The caller has consumed the result and is ready for its next call.
Resume(p) ==
    /\ pc[p] = "returned"
    /\ Goto(p, "idle")
    /\ frame' = [frame EXCEPT ![p] = NoFrame]
    /\ ret' = [ret EXCEPT ![p] = NoRet]
    /\ UNCHANGED <<basicsVars, users, nextID, mu, now, ctxErr, issued, mainVars>>

(* ------------------------------- Sum ---------------------------------- *)

\* total := 0; for _, n := range nums { total += n }; return total
\* (the sums of the model stay far from the overflow of int)
RECURSIVE SumFrom(_, _)
SumFrom(total, nums) ==
    IF nums = <<>> THEN total ELSE SumFrom(total + Head(nums), Tail(nums))

\* Mutant of Sum: the loop starts at the second argument.
SumSkipsFirst(nums) == IF nums = <<>> THEN 0 ELSE SumFrom(0, Tail(nums))

Sum(nums) == SumFrom(0, nums)

(* ---------------------------- asyncLogger ----------------------------- *)

\* for msg := range ch: a message is received from the parked sender
LoggerRecv ==
    /\ pc[Logger] = "recv"
    /\ chanSend # <<>>
    /\ logMsg' = Head(chanSend)
    /\ chanSend' = Tail(chanSend)
    /\ Goto(Logger, "print")
    /\ UNCHANGED <<basicsVars, repoVars, now, ctxErr, frame, ret, issued,
                   batch, i, chanClosed, wg, logged, out, sent>>

\* Mutant of LoggerPrint: log.Println("ASYNC LOG:") without the message.
LoggerPrintWithoutMsg ==
    /\ pc[Logger] = "print"
    /\ logged' = Append(logged, [prefix |-> "ASYNC LOG:", msg |-> <<>>])
    /\ Goto(Logger, "recv")
    /\ UNCHANGED <<basicsVars, repoVars, now, ctxErr, frame, ret, issued,
                   batch, i, chanSend, chanClosed, wg, logMsg, out, sent>>

\* log.Println("ASYNC LOG:", msg)
LoggerPrint ==
    /\ pc[Logger] = "print"
    /\ logged' = Append(logged, [prefix |-> "ASYNC LOG:", msg |-> logMsg])
    /\ Goto(Logger, "recv")
    /\ UNCHANGED <<basicsVars, repoVars, now, ctxErr, frame, ret, issued,
                   batch, i, chanSend, chanClosed, wg, logMsg, out, sent>>

\* for msg := range ch ends on the closed and drained channel; the deferred
\* wg.Done() runs
LoggerDone ==
    /\ pc[Logger] = "recv"
    /\ chanSend = <<>>
    /\ chanClosed
    /\ wg' = wg - 1
    /\ Goto(Logger, "done")
    /\ UNCHANGED <<basicsVars, repoVars, now, ctxErr, frame, ret, issued,
                   batch, i, chanSend, chanClosed, logMsg, logged, out, sent>>

(* -------------------------------- main -------------------------------- *)

\* fmt.Sprintf("User created: %+v", user): a string is the sequence of its
\* parts, the empty string the empty sequence
CreatedMessage(user) == <<"User created: ", user>>

\* json.MarshalIndent of the listing: an array of objects with the fields the
\* struct tags name, in the order of the slice
MarshalUsers(list) ==
    [k \in 1..Len(list) |-> [id |-> list[k].ID, name |-> list[k].Name,
                             email |-> list[k].Email, created_at |-> list[k].CreatedAt]]

Printed(line) == out' = Append(out, line)

\* logChannel := make(chan string); wg.Add(1); go asyncLogger(logChannel, &wg)
MainGo ==
    /\ pc[Driver] = "m_go"
    /\ wg' = wg + 1
    /\ pc' = [pc EXCEPT ![Driver] = "m_loop", ![Logger] = "recv"]
    /\ UNCHANGED <<basicsVars, repoVars, now, ctxErr, frame, ret, issued,
                   batch, i, chanSend, chanClosed, logMsg, logged, out, sent>>

\* for _, u := range users { user, err := service.RegisterUser(u.name, u.email)
MainLoop ==
    /\ pc[Driver] = "m_loop"
    /\ i <= Len(batch)
    /\ Enter(Driver, [NoFrame EXCEPT !.op = "RegisterUser", !.name = batch[i].name,
                                     !.email = batch[i].email,
                                     !.cont = "m_registered"], "r_check")

\* Mutant of MainRegisterFailed: break instead of continue.
MainRegisterFailedBreaks ==
    /\ pc[Driver] = "m_registered"
    /\ ret[Driver].err # "nil"
    /\ Printed([tag |-> "Error:", err |-> ret[Driver].err])
    /\ i' = Len(batch) + 1
    /\ Goto(Driver, "m_loop")
    /\ UNCHANGED <<basicsVars, repoVars, now, ctxErr, frame, ret, issued,
                   batch, chanSend, chanClosed, wg, logMsg, logged, sent>>

\* if err != nil { log.Println("Error:", err); continue }
MainRegisterFailed ==
    /\ pc[Driver] = "m_registered"
    /\ ret[Driver].err # "nil"
    /\ Printed([tag |-> "Error:", err |-> ret[Driver].err])
    /\ i' = i + 1
    /\ Goto(Driver, "m_loop")
    /\ UNCHANGED <<basicsVars, repoVars, now, ctxErr, frame, ret, issued,
                   batch, chanSend, chanClosed, wg, logMsg, logged, sent>>

\* logChannel <- fmt.Sprintf("User created: %+v", user): main parks on the
\* unbuffered channel with its message
MainSend ==
    /\ pc[Driver] = "m_registered"
    /\ ret[Driver].err = "nil"
    /\ ~chanClosed
    /\ chanSend' = Append(chanSend, CreatedMessage(ret[Driver].user))
    /\ sent' = Append(sent, CreatedMessage(ret[Driver].user))
    /\ Goto(Driver, "m_sending")
    /\ UNCHANGED <<basicsVars, repoVars, now, ctxErr, frame, ret, issued,
                   batch, i, chanClosed, wg, logMsg, logged, out>>

\* Mutant of MainSent: the channel made with a buffer, so the send returns
\* without a receiver.
MainSentBuffered ==
    /\ pc[Driver] = "m_sending"
    /\ i' = i + 1
    /\ Goto(Driver, "m_loop")
    /\ UNCHANGED <<basicsVars, repoVars, now, ctxErr, frame, ret, issued,
                   batch, chanSend, chanClosed, wg, logMsg, logged, out, sent>>

\* the send returns once the logger has received the message
MainSent ==
    /\ pc[Driver] = "m_sending"
    /\ chanSend = <<>>
    /\ i' = i + 1
    /\ Goto(Driver, "m_loop")
    /\ UNCHANGED <<basicsVars, repoVars, now, ctxErr, frame, ret, issued,
                   batch, chanSend, chanClosed, wg, logMsg, logged, out, sent>>

\* user, err := service.GetUser(ctx, 1)
MainGet ==
    /\ pc[Driver] = "m_loop"
    /\ i > Len(batch)
    /\ Enter(Driver, [NoFrame EXCEPT !.op = "GetUser", !.ctx = "timeout", !.id = 1,
                                     !.cont = "m_fetched"], "u_check")

\* if err != nil { log.Println("Get user error:", err) }
\* else { fmt.Println("Fetched User:", user) }
MainFetched ==
    /\ pc[Driver] = "m_fetched"
    /\ IF ret[Driver].err # "nil"
       THEN Printed([tag |-> "Get user error:", err |-> ret[Driver].err])
       ELSE Printed([tag |-> "Fetched User:", user |-> ret[Driver].user])
    /\ Goto(Driver, "m_list")
    /\ UNCHANGED <<basicsVars, repoVars, now, ctxErr, frame, ret, issued,
                   batch, i, chanSend, chanClosed, wg, logMsg, logged, sent>>

\* repo.List(), the argument of json.MarshalIndent
MainList ==
    /\ pc[Driver] = "m_list"
    /\ Enter(Driver, [NoFrame EXCEPT !.op = "List", !.cont = "m_json"], "l_lock")

\* jsonData, err := json.MarshalIndent(...): encoding a []User cannot fail;
\* fmt.Println("All Users JSON:"); fmt.Println(string(jsonData))
MainJSON ==
    /\ pc[Driver] = "m_json"
    /\ Printed([tag |-> "All Users JSON:", json |-> MarshalUsers(ret[Driver].list)])
    /\ Goto(Driver, "m_sum")
    /\ UNCHANGED <<basicsVars, repoVars, now, ctxErr, frame, ret, issued,
                   batch, i, chanSend, chanClosed, wg, logMsg, logged, sent>>

\* fmt.Println("Sum result:", Sum(1, 2, 3, 4, 5))
MainSum ==
    /\ pc[Driver] = "m_sum"
    /\ Printed([tag |-> "Sum result:", sum |-> Sum(<<1, 2, 3, 4, 5>>)])
    /\ Goto(Driver, "m_close")
    /\ UNCHANGED <<basicsVars, repoVars, now, ctxErr, frame, ret, issued,
                   batch, i, chanSend, chanClosed, wg, logMsg, logged, sent>>

\* Mutant of MainClose: close(logChannel) is missing.
MainCloseMissing ==
    /\ pc[Driver] = "m_close"
    /\ Goto(Driver, "m_wait")
    /\ UNCHANGED <<basicsVars, repoVars, now, ctxErr, frame, ret, issued, mainVars>>

\* close(logChannel)
MainClose ==
    /\ pc[Driver] = "m_close"
    /\ ~chanClosed
    /\ chanClosed' = TRUE
    /\ Goto(Driver, "m_wait")
    /\ UNCHANGED <<basicsVars, repoVars, now, ctxErr, frame, ret, issued,
                   batch, i, chanSend, wg, logMsg, logged, out, sent>>

\* Mutant of WaitReturns: wg.Wait() returns at once.
WaitNeverBlocks == TRUE

\* wg.Wait() returns when the counter is zero
WaitReturns == wg = 0

MainWait ==
    /\ pc[Driver] = "m_wait"
    /\ WaitReturns
    /\ Goto(Driver, "m_finish")
    /\ UNCHANGED <<basicsVars, repoVars, now, ctxErr, frame, ret, issued, mainVars>>

\* fmt.Println("Program finished cleanly"), then the deferred cancel()
MainFinish ==
    /\ pc[Driver] = "m_finish"
    /\ Printed([tag |-> "Program finished cleanly"])
    /\ ctxErr' = [ctxErr EXCEPT !["timeout"] =
                     IF ctxErr["timeout"] = "nil" THEN Canceled ELSE ctxErr["timeout"]]
    /\ Goto(Driver, "exited")
    /\ UNCHANGED <<basicsVars, repoVars, now, frame, ret, issued,
                   batch, i, chanSend, chanClosed, wg, logMsg, logged, sent>>

(* ------------------------ time and contexts --------------------------- *)

\* A second passes.
Tick ==
    /\ now < MaxTime
    /\ now' = now + 1
    /\ UNCHANGED <<basicsVars, users, nextID, mu, ctxErr, pc, frame, ret, issued, mainVars>>

\* The timer of the context with the timeout fires at or after its deadline.
DeadlineFire ==
    /\ now >= Deadline
    /\ ctxErr["timeout"] = "nil"
    /\ ctxErr' = [ctxErr EXCEPT !["timeout"] = DeadlineExceeded]
    /\ UNCHANGED <<basicsVars, users, nextID, mu, now, pc, frame, ret, issued, mainVars>>

\* cancel() of the context with the timeout; a second cancel changes nothing.
Cancel ==
    /\ ctxErr["timeout"] = "nil"
    /\ ctxErr' = [ctxErr EXCEPT !["timeout"] = Canceled]
    /\ UNCHANGED <<basicsVars, users, nextID, mu, now, pc, frame, ret, issued, mainVars>>

(* --------------------------- specifications --------------------------- *)

\* The statements of the repository that goroutine p can run.
RepoStep(p) ==
    \/ CreateLock(p)
    \/ CreateStamp(p)
    \/ CreateStore(p)
    \/ CreateInc(p)
    \/ CreateReturn(p)
    \/ GetLock(p)
    \/ GetRead(p)
    \/ GetReturn(p)
    \/ ListLock(p)
    \/ ListRead(p)
    \/ ListReturn(p)

\* The statements of the service and the repository that goroutine p can run.
Step(p) ==
    \/ RegisterCheck(p)
    \/ GetUserCheck(p)
    \/ RepoStep(p)

\* One caller issuing any sequence of calls, while time passes and the context
\* expires or is cancelled.
Next ==
    \/ CallRegisterUser(Caller, RegisterInputs)
    \/ CallGetUser(Caller)
    \/ CallCreate(Caller)
    \/ CallGetByID(Caller, 0..MaxCreates)
    \/ CallList(Caller)
    \/ Step(Caller)
    \/ Resume(Caller)
    \/ Tick
    \/ DeadlineFire
    \/ Cancel

Spec == Init /\ [][Next]_vars

\* Several goroutines calling Create (through RegisterUser), GetByID and List
\* on the same repository.
NextConcurrent ==
    \/ \E p \in Clients : CallRegisterUser(p, ConcurrentInputs)
    \/ \E p \in Clients : CallGetByID(p, ConcurrentIDs)
    \/ \E p \in Clients : CallList(p)
    \/ \E p \in Clients : RegisterCheck(p)
    \/ \E p \in Clients : RepoStep(p)
    \/ \E p \in Clients : Resume(p)
    \/ Tick

SpecConcurrent == Init /\ [][NextConcurrent]_vars

\* The run of main with the logger goroutine it starts.
NextMain ==
    \/ MainGo
    \/ MainLoop
    \/ MainRegisterFailed
    \/ MainSend
    \/ MainSent
    \/ MainGet
    \/ MainFetched
    \/ MainList
    \/ MainJSON
    \/ MainSum
    \/ MainClose
    \/ MainWait
    \/ MainFinish
    \/ Step(Driver)
    \/ LoggerRecv
    \/ LoggerPrint
    \/ LoggerDone
    \/ Tick
    \/ DeadlineFire

SpecMain == InitMain /\ [][NextMain]_vars

\* The steps of main, and the steps of the logger goroutine.
DriverStep ==
    \/ MainGo
    \/ MainLoop
    \/ MainRegisterFailed
    \/ MainSend
    \/ MainSent
    \/ MainGet
    \/ MainFetched
    \/ MainList
    \/ MainJSON
    \/ MainSum
    \/ MainClose
    \/ MainWait
    \/ MainFinish
    \/ Step(Driver)

LoggerStep ==
    \/ LoggerRecv
    \/ LoggerPrint
    \/ LoggerDone

\* The run of main under the scheduler of the Go runtime: a goroutine that
\* stays runnable is run in the end.
FairSpecMain ==
    InitMain /\ [][NextMain]_vars /\ WF_vars(DriverStep) /\ WF_vars(LoggerStep)

(* ------------------------- the basics program ------------------------- *)

\* var name = "Go Basics"
appName == "Go Basics"

\* The values the uint x and the int16 Y are given: the literals of the
\* program and their neighbours, the ends of the two ranges among them.
XInputs == {0, 1, 2, 3, 4, 224, 225, 226}
YInputs == {-32768, -32767, -1, 0, 1, 32765, 32766, 32767}

\* Mutant of Wrap16: the sum is kept as the mathematical integer.
NoWrap16(v) == v

\* The int16 a Go addition or subtraction yields for the mathematical result
\* v: v modulo 2^16, in -32768..32767.
Wrap16(v) == ((v + 32768) % 65536) - 32768

\* a - b on the uint (64 bits wide): the difference when it is not negative,
\* else 2^64 - val, a value written by its distance below 2^64.
SubUint(a, b) ==
    IF a >= b THEN [wrapped |-> FALSE, val |-> a - b]
              ELSE [wrapped |-> TRUE, val |-> b - a]

\* The basics program started with x and Y given the values of XInputs and
\* YInputs.
InitBasics ==
    /\ users = <<>>
    /\ nextID = 1
    /\ mu = FALSE
    /\ now = StartTime
    /\ ctxErr = [c \in Ctxs |-> "nil"]
    /\ pc = [p \in Procs |-> IF p \in Clients THEN "idle"
                             ELSE IF p = Driver THEN "m_go" ELSE "unstarted"]
    /\ frame = [p \in Procs |-> NoFrame]
    /\ ret = [p \in Procs |-> NoRet]
    /\ issued = <<>>
    /\ batch = MainUsers
    /\ i = 1
    /\ chanSend = <<>>
    /\ chanClosed = FALSE
    /\ wg = 0
    /\ logMsg = <<>>
    /\ logged = <<>>
    /\ out = <<>>
    /\ sent = <<>>
    /\ BasicsStart
    /\ x \in XInputs
    /\ Y \in YInputs

\* println(name)
PrintName ==
    /\ bpc = "b_name"
    /\ stderr' = Append(stderr, appName)
    /\ bpc' = "b_x"
    /\ UNCHANGED <<repoVars, now, ctxErr, callVars, mainVars, x, Y, stdout>>

\* println(x)
PrintX ==
    /\ bpc = "b_x"
    /\ stderr' = Append(stderr, x)
    /\ bpc' = "b_sub"
    /\ UNCHANGED <<repoVars, now, ctxErr, callVars, mainVars, x, Y, stdout>>

\* fmt.Println(x, x-3)
PrintSub ==
    /\ bpc = "b_sub"
    /\ stdout' = Append(stdout, <<x, SubUint(x, 3)>>)
    /\ bpc' = "b_Y"
    /\ UNCHANGED <<repoVars, now, ctxErr, callVars, mainVars, x, Y, stderr>>

\* var Y int16 = ...; fmt.Println(Y+2, Y-2)
PrintY ==
    /\ bpc = "b_Y"
    /\ stdout' = Append(stdout, <<Wrap16(Y + 2), Wrap16(Y - 2)>>)
    /\ bpc' = "b_exit"
    /\ UNCHANGED <<repoVars, now, ctxErr, callVars, mainVars, x, Y, stderr>>

NextBasics == PrintName \/ PrintX \/ PrintSub \/ PrintY

SpecBasics == InitBasics /\ [][NextBasics]_vars

(* ------------------------------ claims -------------------------------- *)

\* The goroutines inside the critical section of a repository method.
InCritical == {p \in Procs : pc[p] \in {"c_stamp", "c_store", "c_inc", "c_ret",
                                        "g_read", "g_ret", "l_read", "l_ret"}}

\* The last call of p has returned and was a call of `op`.
Returned(p, op) == pc[p] = "returned" /\ frame[p].op = op

\* C1: the Users returned by Create (so by every successful RegisterUser) carry
\* strictly increasing IDs, hence pairwise different ones, the first of them 1,
\* and a RegisterUser with a non-empty name and email returns the latest of them.
C1_RegisterUserIDsIncrease ==
    /\ \A a, b \in 1..Len(issued) : a < b => issued[a].ID < issued[b].ID
    /\ Len(issued) >= 1 => issued[1].ID = 1
    /\ \A p \in Procs :
         (Returned(p, "RegisterUser") /\ frame[p].name # "" /\ frame[p].email # "")
         => /\ ret[p].err = "nil"
            /\ Len(issued) >= 1
            /\ ret[p].user = issued[Len(issued)]
            /\ \A a \in 1..(Len(issued) - 1) : issued[a].ID < ret[p].user.ID

\* C1 witness: a third successful RegisterUser has returned.
C1_Witness ==
    /\ Returned(Caller, "RegisterUser")
    /\ ret[Caller].err = "nil"
    /\ Len(issued) >= 3

\* C2: the step of RegisterUser on an empty name or an empty email returns the
\* zero User and the validation error to the caller without entering
\* Repository.Create, and leaves the map, the counter and the lock as they were.
C2_InvalidRegisterIsRejected ==
    [][\A p \in Procs :
         (/\ pc[p] = "r_check"
          /\ (frame[p].name = "" \/ frame[p].email = "")
          /\ pc'[p] # pc[p])
         => /\ ret'[p] = UserRet(ZeroUser, ErrValidation)
            /\ pc'[p] = frame[p].cont
            /\ users' = users
            /\ nextID' = nextID
            /\ mu' = mu
            /\ issued' = issued]_vars

\* C2 witness: a RegisterUser with only one argument empty has been rejected
\* on a repository that holds records.
C2_Witness ==
    /\ Returned(Caller, "RegisterUser")
    /\ frame[Caller].name # ""
    /\ frame[Caller].email = ""
    /\ ret[Caller].err = ErrValidation
    /\ Cardinality(DOMAIN users) >= 2

\* C3: GetByID(id) returns the zero User and ErrUserNotFound when no Create has
\* returned id, and otherwise the very record that Create returned, with a nil
\* error.
C3_GetByIDRoundTrip ==
    \A p \in Procs :
        Returned(p, "GetByID")
        => LET hits == {k \in 1..Len(issued) : issued[k].ID = frame[p].id}
           IN IF hits = {}
              THEN ret[p] = UserRet(ZeroUser, ErrUserNotFound)
              ELSE \A k \in hits : ret[p] = UserRet(issued[k], "nil")

\* C3 witness: GetByID has returned the second record created, which differs
\* from the User its Create was called with.
C3_Witness ==
    /\ Returned(Caller, "GetByID")
    /\ frame[Caller].id = 2
    /\ ret[Caller].err = "nil"
    /\ ret[Caller].user.ID = 2
    /\ ret[Caller].user.CreatedAt > StartTime

\* C4: with one caller, List after N returned Creates returns N records whose
\* IDs are pairwise different and are exactly 1..N, and they are the records
\* stored (the ones the Creates returned).
C4_ListAfterNCreates ==
    Returned(Caller, "List")
    => LET l == ret[Caller].list
           N == Len(issued)
       IN /\ Len(l) = N
          /\ {l[k].ID : k \in 1..Len(l)} = 1..N
          /\ \A a, b \in 1..Len(l) : a # b => l[a].ID # l[b].ID
          /\ {l[k] : k \in 1..Len(l)} = {issued[k] : k \in 1..N}
          /\ {l[k] : k \in 1..Len(l)} = {users[d] : d \in DOMAIN users}

\* C4 witness: List has returned three records in an order that is not the
\* order of creation.
C4_Witness ==
    /\ Returned(Caller, "List")
    /\ Len(ret[Caller].list) = 3
    /\ ret[Caller].list[1].ID = 3

\* C5: with goroutines calling concurrently, at most one is inside a critical
\* section and the lock is held exactly then; the IDs returned by Create are
\* pairwise different; while no Create is inside its critical section the map
\* holds one record per returned Create under the keys 1..nextID-1; and a
\* GetByID or List that reads, and a List that has returned, sees such a map.
C5_OperationsAreAtomic ==
    /\ Cardinality(InCritical) <= 1
    /\ mu <=> (InCritical # {})
    /\ \A a, b \in 1..Len(issued) : a # b => issued[a].ID # issued[b].ID
    /\ (\A p \in Procs : pc[p] \notin {"c_stamp", "c_store", "c_inc", "c_ret"})
       => /\ Cardinality(DOMAIN users) = Len(issued)
          /\ nextID = Len(issued) + 1
          /\ DOMAIN users = 1..(nextID - 1)
    /\ \A p \in Procs :
         pc[p] \in {"g_read", "l_read"} => DOMAIN users = 1..(nextID - 1)
    /\ \A p \in Procs :
         Returned(p, "List")
         => {ret[p].list[k].ID : k \in 1..Len(ret[p].list)} = 1..Len(ret[p].list)

\* C5 witness: one goroutine is between the store and the increment of a Create
\* while the other waits for the lock to create too.
C5_Witness ==
    /\ pc["c1"] = "c_inc"
    /\ pc["c2"] = "c_lock"
    /\ Len(issued) >= 1

\* The lines of main's output with the tag `tag`.
Lines(tag) == {k \in 1..Len(out) : out[k].tag = tag}

\* C6: what the logger has printed is, line for line, a prefix of what main has
\* sent, and once the logger has left its loop (the channel closed and drained)
\* it is all of it: the same messages in the same order, none twice.
C6_LoggedInSendOrder ==
    /\ Len(logged) <= Len(sent)
    /\ \A k \in 1..Len(logged) : logged[k] = [prefix |-> "ASYNC LOG:", msg |-> sent[k]]
    /\ pc[Logger] = "done" => (chanClosed /\ Len(logged) = Len(sent))

\* C6 witness: the logger has left its loop after two messages.
C6_Witness ==
    /\ pc[Logger] = "done"
    /\ Len(sent) = 2
    /\ sent[1] # sent[2]

\* C7: once main is past wg.Wait(), the logger has returned and has printed
\* every message sent; nothing is parked on the channel.
C7_WaitOutlastsLogging ==
    pc[Driver] \in {"m_finish", "exited"}
    => /\ pc[Logger] = "done"
       /\ chanSend = <<>>
       /\ Len(logged) = Len(sent)
       /\ {logged[k].msg : k \in 1..Len(logged)} = {sent[k] : k \in 1..Len(sent)}

\* C7 witness: main has printed its last line after sending two messages.
C7_Witness ==
    /\ pc[Driver] = "exited"
    /\ Lines("Program finished cleanly") # {}
    /\ Len(sent) = 2

\* C8: the step of GetUser on a context that is done returns the zero User and
\* the context's own error, one of DeadlineExceeded (only at or after the
\* deadline) and Canceled, without entering Repository.GetByID, and leaves the
\* map, the counter and the lock as they were.
C8_DoneContextIsReturned ==
    [][\A p \in Procs :
         (/\ pc[p] = "u_check"
          /\ ctxErr[frame[p].ctx] # "nil"
          /\ pc'[p] # pc[p])
         => /\ ret'[p] = UserRet(ZeroUser, ctxErr[frame[p].ctx])
            /\ ret'[p].err \in {DeadlineExceeded, Canceled}
            /\ ret'[p].err = DeadlineExceeded => now >= StartTime + Timeout
            /\ pc'[p] = frame[p].cont
            /\ users' = users
            /\ nextID' = nextID
            /\ mu' = mu]_vars

\* C8 witness: GetUser has returned DeadlineExceeded for an id that is stored.
C8_Witness ==
    /\ Returned(Caller, "GetUser")
    /\ ret[Caller] = UserRet(ZeroUser, DeadlineExceeded)
    /\ frame[Caller].id \in DOMAIN users

\* C9: no step removes a record from the map or changes the record stored
\* under an ID.
C9_StoredRecordsNeverChange ==
    [][\A id \in DOMAIN users : id \in DOMAIN users' /\ users'[id] = users[id]]_vars

\* C9 witness: two records are stored, created at different times through
\* RegisterUser and Create, and a later GetUser has returned.
C9_Witness ==
    /\ Cardinality(DOMAIN users) >= 2
    /\ users[1].CreatedAt < users[2].CreatedAt
    /\ users[1].Name # users[2].Name
    /\ Returned(Caller, "GetUser")
    /\ ret[Caller].err = "nil"

\* C10: in main's run on its own slice the Users created are Gaurav with ID 1
\* and Amit with ID 2; GetUser(ctx, 1), when the context has not expired at its
\* check, returns the Gaurav record, which main prints; the listing printed is
\* those two records; and the sum printed is 15. Sum of no arguments is 0 and
\* Sum adds.
C10_MainScenario ==
    /\ Sum(<<>>) = 0
    /\ \A a, b \in 0..3 : Sum(<<a>>) = a /\ Sum(<<a, b>>) = a + b
    /\ batch = MainUsers
       => /\ Len(issued) <= 2
          /\ \A k \in 1..Len(issued) :
               /\ issued[k].ID = k
               /\ issued[k].Name = MainUsers[k].name
               /\ issued[k].Email = MainUsers[k].email
          /\ pc[Driver] = "m_fetched"
             => IF ret[Driver].err = "nil"
                THEN /\ ret[Driver].user = issued[1]
                     /\ ret[Driver].user.Name = "Gaurav"
                ELSE ret[Driver] = UserRet(ZeroUser, DeadlineExceeded)
          /\ \A k \in Lines("Fetched User:") : out[k].user = issued[1]
          /\ \A k \in Lines("All Users JSON:") :
               /\ Len(out[k].json) = 2
               /\ {out[k].json[n] : n \in 1..2}
                    = {[id |-> issued[n].ID, name |-> issued[n].Name,
                        email |-> issued[n].Email,
                        created_at |-> issued[n].CreatedAt] : n \in 1..2}
          /\ \A k \in Lines("Sum result:") : out[k].sum = 15
          /\ pc[Driver] = "exited"
             => /\ Lines("All Users JSON:") # {}
                /\ Lines("Sum result:") # {}
                /\ Lines("Error:") = {}

\* C10 witness: main has run to its end on its own slice and has printed the
\* fetched user.
C10_Witness ==
    /\ batch = MainUsers
    /\ pc[Driver] = "exited"
    /\ Lines("Fetched User:") # {}
    /\ Lines("Sum result:") # {}

\* The sends of main that have returned, and the receives of the logger.
SendsCompleted == Len(sent) - (IF pc[Driver] = "m_sending" THEN 1 ELSE 0)
Receives == Len(logged) + (IF pc[Logger] = "print" THEN 1 ELSE 0)

\* C11: main has never completed more sends than the logger has performed
\* receives; at most one message is parked on the channel, and only while main
\* is inside its send; main has begun at most one send the logger has not
\* received.
C11_UnbufferedHandoff ==
    /\ SendsCompleted <= Receives
    /\ Receives <= Len(sent)
    /\ Len(sent) - Receives <= 1
    /\ Len(chanSend) <= 1
    /\ chanSend # <<>> => pc[Driver] = "m_sending"
    /\ Len(chanSend) = Len(sent) - Receives

\* C11 witness: main is parked with its second message while the logger is
\* still printing the first.
C11_Witness ==
    /\ pc[Driver] = "m_sending"
    /\ Len(sent) = 2
    /\ chanSend = <<sent[2]>>
    /\ pc[Logger] = "print"
    /\ logged = <<>>

\* C12: a GetUser that has passed its check returns what the lookup of its id
\* in the map gives, the record with a nil error or the zero User with
\* ErrUserNotFound, whatever the context has become since: never the
\* context's error.
C12_CheckIsOnePoll ==
    [][\A p \in Procs :
         (/\ frame[p].op = "GetUser"
          /\ pc[p] = "g_ret"
          /\ pc'[p] # pc[p])
         => /\ pc'[p] = frame[p].cont
            /\ ret'[p].err \notin {Canceled, DeadlineExceeded}
            /\ ret'[p] = IF frame[p].id \in DOMAIN users
                         THEN UserRet(users[frame[p].id], "nil")
                         ELSE UserRet(ZeroUser, ErrUserNotFound)]_vars

\* C12 witness: a GetUser past its check is about to return a stored record
\* although its context has been cancelled in between.
C12_Witness ==
    /\ frame[Caller].op = "GetUser"
    /\ frame[Caller].ctx = "timeout"
    /\ pc[Caller] = "g_ret"
    /\ ctxErr["timeout"] = Canceled
    /\ frame[Caller].err = "nil"
    /\ frame[Caller].user.ID = frame[Caller].id

\* C13: until main has exited, main or the logger can take a step; the channel
\* is closed by main's close statement alone, stays closed, and is closed only
\* when the loop of sends is over and nothing is parked on it; no send begins
\* on the closed channel; and under fair scheduling the logger leaves its loop
\* and calls wg.Done, and main passes wg.Wait and exits.
C13_ShutdownTerminates ==
    /\ [](pc[Driver] # "exited" => ENABLED (DriverStep \/ LoggerStep))
    /\ [](chanClosed => (i > Len(batch) /\ chanSend = <<>>
                         /\ pc[Driver] \in {"m_wait", "m_finish", "exited"}))
    /\ [][chanClosed => chanClosed']_vars
    /\ [][chanClosed' # chanClosed
            => (pc[Driver] = "m_close" /\ pc'[Driver] = "m_wait")]_vars
    /\ [][sent' # sent => (~chanClosed /\ ~chanClosed')]_vars
    /\ <>(pc[Logger] = "done" /\ wg = 0)
    /\ <>(pc[Driver] = "exited")
    /\ [](pc[Driver] = "exited" => pc[Logger] = "done")

\* C13 witness: main has exited and the logger has returned, after a batch of
\* one failed and one successful registration.
C13_Witness ==
    /\ pc[Driver] = "exited"
    /\ pc[Logger] = "done"
    /\ chanClosed
    /\ wg = 0
    /\ Len(batch) = 2
    /\ Len(sent) = 1

\* C14: whenever the lock is free the keys of the map are exactly
\* 1..nextID-1, the record under key k has ID k, and nextID is the number of
\* records plus 1; nextID is at least 1 and no step decreases it.
C14_MapAndCounterAgree ==
    /\ [](~mu => /\ DOMAIN users = 1..(nextID - 1)
                 /\ \A k \in DOMAIN users : users[k].ID = k
                 /\ nextID = Cardinality(DOMAIN users) + 1)
    /\ [](nextID >= 1)
    /\ [][nextID' >= nextID]_vars

\* C14 witness: the lock is free and the map holds three records, one of them
\* created from a User that carried an ID of its own.
C14_Witness ==
    /\ ~mu
    /\ nextID = 4
    /\ DOMAIN users = 1..3
    /\ users[3].Name = ""
    /\ users[1].Name = "Amit"

\* The entries among the first n of the batch that have a name and an email.
ValidEntries(n) == {k \in 1..n : batch[k].name # "" /\ batch[k].email # ""}

\* main has left its registration loop.
PastLoop ==
    \/ pc[Driver] \in {"m_fetched", "m_list", "m_json", "m_sum", "m_close",
                       "m_wait", "m_finish", "exited"}
    \/ frame[Driver].op \in {"GetUser", "List"}

\* C15: after each entry of the batch main has sent one message for it when
\* its registration succeeded and printed one error and sent nothing when it
\* failed; the messages carry the Users created, in order; main leaves the
\* loop only after the last entry, whatever failed before; and under fair
\* scheduling it goes on to fetch, list, close and exit.
C15_FailedEntryDoesNotAbort ==
    /\ [](/\ i <= Len(batch) + 1
          /\ Len(sent) = Cardinality(ValidEntries(i - 1))
                         + (IF pc[Driver] = "m_sending" THEN 1 ELSE 0)
          /\ Cardinality(Lines("Error:")) = (i - 1) - Cardinality(ValidEntries(i - 1))
          /\ \A k \in 1..Len(sent) : sent[k] = <<"User created: ", issued[k]>>
          /\ PastLoop => /\ i = Len(batch) + 1
                         /\ Len(issued) = Cardinality(ValidEntries(Len(batch))))
    /\ [](pc[Driver] = "exited"
          => /\ Lines("Fetched User:") \cup Lines("Get user error:") # {}
             /\ Lines("All Users JSON:") # {}
             /\ chanClosed)
    /\ <>(pc[Driver] = "exited")

\* C15 witness: main has exited after a batch whose first entry failed and
\* whose second was registered and logged.
C15_Witness ==
    /\ pc[Driver] = "exited"
    /\ Len(batch) = 2
    /\ batch[1].name = ""
    /\ ValidEntries(2) = {2}
    /\ Cardinality(Lines("Error:")) = 1
    /\ Len(logged) = 1
    /\ Lines("Fetched User:") # {}

\* C16: the step of GetUser on a context that is not done enters GetByID with
\* the same id and changes nothing else; and a GetUser that has returned
\* anything but its context's error has returned what GetByID returns on the
\* map: the stored record, the one its Create returned, with a nil error, or
\* the zero User with the ErrUserNotFound value itself.
C16_GetUserIsGetByID ==
    /\ [][\A p \in Procs :
            (pc[p] = "u_check" /\ ctxErr[frame[p].ctx] = "nil" /\ pc'[p] # pc[p])
            => /\ pc'[p] = "g_lock"
               /\ frame'[p] = frame[p]
               /\ ret'[p] = ret[p]
               /\ UNCHANGED <<users, nextID, mu>>]_vars
    /\ [](\A p \in Procs :
            (Returned(p, "GetUser") /\ ret[p].err \notin {Canceled, DeadlineExceeded})
            => IF frame[p].id \in DOMAIN users
               THEN /\ ret[p] = UserRet(users[frame[p].id], "nil")
                    /\ \E k \in 1..Len(issued) : ret[p].user = issued[k]
               ELSE ret[p] = UserRet(ZeroUser, ErrUserNotFound))

\* C16 witness: GetUser with the live timeout context has returned
\* ErrUserNotFound for an id that is not stored, on a repository with records.
C16_Witness ==
    /\ Returned(Caller, "GetUser")
    /\ frame[Caller].ctx = "timeout"
    /\ ctxErr["timeout"] = "nil"
    /\ ret[Caller] = UserRet(ZeroUser, ErrUserNotFound)
    /\ frame[Caller].id = 3
    /\ DOMAIN users = {1, 2}

\* C17: a call that went through Create (Create itself on any User, with an
\* empty name and email and an ID and a timestamp of its own; RegisterUser on
\* a name and an email) has returned a nil error and the User with the next
\* sequential ID and a timestamp read from the clock, the name and email as
\* supplied, stored under that ID; the keys of the map are the IDs assigned.
C17_CreateAlwaysSucceeds ==
    \A p \in Procs :
        (\/ Returned(p, "Create")
         \/ (Returned(p, "RegisterUser") /\ frame[p].name # "" /\ frame[p].email # ""))
        => /\ ret[p].err = "nil"
           /\ ret[p].kind = "user"
           /\ ret[p].user.ID = Len(issued)
           /\ ret[p].user.CreatedAt \in StartTime..now
           /\ ret[p].user = issued[Len(issued)]
           /\ DOMAIN users = 1..Len(issued)
           /\ users[ret[p].user.ID] = ret[p].user
           /\ frame[p].op = "RegisterUser"
              => (ret[p].user.Name = frame[p].name /\ ret[p].user.Email = frame[p].email)
           /\ frame[p].op = "Create"
              => \E u \in CreateInputs :
                    ret[p].user.Name = u.Name /\ ret[p].user.Email = u.Email

\* C17 witness: Create, called first with a User of empty name that carried
\* the ID 2 and the timestamp 2, has returned it with ID 1 and the clock's 1.
C17_Witness ==
    /\ Returned(Caller, "Create")
    /\ ret[Caller].err = "nil"
    /\ ret[Caller].user = [ID |-> 1, Name |-> "", Email |-> "", CreatedAt |-> 1]
    /\ DOMAIN users = {1}

\* C18: no step of a call of GetByID, List or GetUser changes the stored map
\* or the next-ID counter, so that they are at the return what they were at
\* the call, whether the call returns a result or an error; and the lock is
\* free whenever no call is between its Lock and its return, so that every
\* return of Create, GetByID and List has released it.
C18_ReadsLeaveStateAlone ==
    /\ [][\A p \in Procs :
            (/\ frame[p].op \in {"GetByID", "List", "GetUser"}
             /\ pc[p] \notin {"idle", "returned"}
             /\ pc'[p] # pc[p])
            => UNCHANGED <<users, nextID>>]_vars
    /\ [](mu => \E p \in Procs : pc[p] \notin {"idle", "returned"})
    /\ [](\A p \in Procs :
            (\/ Returned(p, "Create") \/ Returned(p, "GetByID")
             \/ Returned(p, "List") \/ Returned(p, "GetUser"))
            => ~mu)

\* C18 witness: GetUser has returned ErrUserNotFound from a repository that
\* holds two users; the map and the counter are what Create left, the lock
\* is free.
C18_Witness ==
    /\ Returned(Caller, "GetUser")
    /\ ret[Caller] = UserRet(ZeroUser, ErrUserNotFound)
    /\ DOMAIN users = {1, 2}
    /\ nextID = 3
    /\ ~mu

\* C19: when the basics program has run, the second line of fmt.Println holds
\* the two int16 values congruent modulo 2^16 to Y+2 and to Y-2; for
\* Y = 32767 they are -32767 (not 32769) and 32765. The first line holds x
\* and x-3, which for x not below 3 is the plain difference, not wrapped:
\* 222 for x = 225.
C19_Int16WrapsUintDoesNot ==
    bpc = "b_exit" =>
        /\ Len(stdout) = 2
        /\ \A k \in 1..2 : Len(stdout[k]) = 2
        /\ \A k \in 1..2 : stdout[2][k] \in -32768..32767
        /\ (stdout[2][1] - (Y + 2)) % 65536 = 0
        /\ (stdout[2][2] - (Y - 2)) % 65536 = 0
        /\ Y = 32767 => /\ stdout[2][1] = -32767
                        /\ stdout[2][1] # 32769
                        /\ stdout[2][2] = 32765
        /\ stdout[1][1] = x
        /\ x >= 3 => stdout[1][2] = [wrapped |-> FALSE, val |-> x - 3]
        /\ x = 225 => stdout[1][2].val = 222
        /\ stderr = <<appName, x>>

\* C19 witness: the program run on its own literals has printed 225 222 and
\* -32767 32765.
C19_Witness ==
    /\ bpc = "b_exit"
    /\ x = 225
    /\ Y = 32767
    /\ stdout = << <<225, [wrapped |-> FALSE, val |-> 222]>>, <<-32767, 32765>> >>

====
